---- MODULE Spec2Model ----
(***************************************************************************)
(* Model of the PopUI MCP bridge (src/src/server.ts, startMcp):            *)
(*   - the connection registry: GET /sse, the channel's close handler and  *)
(*     POST /messages with its session routing;                            *)
(*   - the pop-ui tool handler with its modes show / set / get / describe  *)
(*     and the invalid-mode fall-through;                                  *)
(*   - the ui://list resource.                                             *)
(* The surface store behind readWindow / injectWindow / describeWindow /   *)
(* openFile / listFiles lives in ./main, which is not part of the sources  *)
(* at hand; it is modelled from the specification's contract.              *)
(***************************************************************************)
EXTENDS Integers, Sequences, FiniteSets, TLC

(***************************************************************************)
(* Bounds                                                                  *)
(***************************************************************************)
\* number of session identities that can ever be handed out
MaxSessions == 2
\* number of tool invocations that can be in flight at the same time
MaxCalls == 1

(***************************************************************************)
(* Values                                                                  *)
(***************************************************************************)
\* JavaScript's undefined: an optional argument that was not supplied, a
\* header / query parameter / body field that is not there
Undefined == "undefined"
\* JavaScript's null: the store's answer for a surface that is not there
Null == "null"
\* the empty string (present, but falsy)
EmptyStr == ""

\* session ids are the strings the transport constructor draws (UUIDs)
SessionIds == {ToString(i) : i \in 1 .. MaxSessions}

\* a string a client sends as session id that is no session's id
UnknownId == "unknown"

\* what a request can carry in body.sessionId, x-session-id or ?sessionId
IdFields == SessionIds \cup {Undefined, EmptyStr, UnknownId}

Messages == [body : IdFields, header : IdFields, query : IdFields]

(***************************************************************************)
(* Values of the tool's arguments and of the store                         *)
(***************************************************************************)
\* surface names, as character sequences: z.string() also admits the empty
\* name
Names == {<<>>, <<"a">>}

\* component sources (the tsx argument)
Contents == {"C1", "C2"}

\* model states (the json argument, and what the surface reports)
States == {"S1"}

\* what describeWindow reports for a surface
Schema == "schema"

\* z.enum(["show", "get", "set", "describe"])
ModeEnum == {"show", "get", "set", "describe"}

\* the mode argument: the enum is optional
Modes == {"show", "set", "get", "describe", Undefined}

\* mode strings outside the enum, which the schema does not let through
BadModes == {"frobnicate"}

\* the json arguments tried with a mode: only show and set read json
JsonArgs(mode) ==
    IF mode \in {"show", "set"} THEN States \cup {Undefined} ELSE {Undefined}

\* the tsx arguments tried with a mode: only show reads tsx; the other
\* modes are tried without it and with one component
TsxArgs(mode) ==
    IF mode = "show" THEN Contents \cup {Undefined} ELSE {Undefined, "C1"}

\* the suffix of a surface's backing file
TsxExt == <<".", "t", "s", "x">>

\* `${name}.tsx`
FileName(name) == name \o TsxExt

\* files of the uploads directory that are no surface's backing file: an
\* upload with another suffix, and one without a suffix
ForeignFiles == {<<"a", ".", "t", "x", "t">>, <<"a">>}

\* the fileName values tried with POST /upload: plain names and one with
\* a directory in front
UploadNames ==
    {<<"a", ".", "t", "s", "x">>, <<"a", ".", "t", "x", "t">>, <<"a">>,
     <<"d", "/", "a", ".", "t", "x", "t">>}

\* the names of the backing files the uploads directory can hold
FileNames == {FileName(n) : n \in Names}

\* the value of a directory slot that holds no file
NoFile == "nofile"

\* `${windowState}`: the template literal renders null as "null",
\* undefined as "undefined" and a string as itself
ToText(v) == v


VARIABLES
    transports,   \* the Map of open transports, as its keys in insertion order
    usedIds,      \* session identities handed out so far
    closedIds,    \* sessions whose close event has been processed
    lastPost,     \* outcome of the most recent POST /messages
    attached,     \* the transport the MCP server object is connected to
    regOrder,     \* history: the session identities in the order of their connects
    files,        \* the uploads directory: backing file name -> content
    foreign,      \* the uploads directory: the names of its other files
    live,         \* the surface store's live state per surface name
    openReqs,     \* surface names for which an open/render request was issued
    calls,        \* pop-ui invocations in flight
    watched,      \* the surface name whose history is recorded
    shownEver,    \* history: a show of the watched name was invoked
    shownDone,    \* history: a show of the watched name with tsx has returned
    setMissed     \* history: a set of the watched name has returned not-found

regVars == <<transports, usedIds, closedIds, lastPost, attached, regOrder>>
toolVars == <<files, foreign, live, openReqs, calls, watched, shownEver, shownDone,
              setMissed>>
vars == <<transports, usedIds, closedIds, lastPost, attached, regOrder,
          files, foreign, live, openReqs, calls, watched, shownEver, shownDone,
          setMissed>>

(***************************************************************************)
(* Connection registry                                                     *)
(***************************************************************************)
Range(s) == {s[i] : i \in 1 .. Len(s)}

\* Map.has
Has(m, k) == k \in Range(m)

\* The delete written with an array: splice(indexOf(k), 1), which takes the
\* last entry away when k is not there.
MapDeleteSplice(m, k) ==
    IF Has(m, k) THEN SelectSeq(m, LAMBDA x : x # k)
    ELSE SubSeq(m, 1, Len(m) - 1)

\* Map.delete: removes the key, keeps the insertion order of the others
MapDelete(m, k) == SelectSeq(m, LAMBDA x : x # k)

\* Map.set of a key: a new key goes last, an existing key keeps its place
MapSet(m, k) == IF Has(m, k) THEN m ELSE Append(m, k)

\* JavaScript truthiness of a session id field
Truthy(v) == v # Undefined /\ v # EmptyStr

\* Some other location of the request decides before the body is looked at.
SessionIdOfHeaderFirst(msg) ==
    IF Truthy(msg.header) THEN msg.header
    ELSE IF Truthy(msg.body) THEN msg.body
    ELSE IF Truthy(msg.query) THEN msg.query
    ELSE Null

\* let sessionId = null; body, else header, else query
SessionIdOf(msg) ==
    IF Truthy(msg.body) THEN msg.body
    ELSE IF Truthy(msg.header) THEN msg.header
    ELSE IF Truthy(msg.query) THEN msg.query
    ELSE Null

\* The fallback taken although the request names an open session.
RouteIgnoringId(m, msg) == m[1]

\* The identity of the request taken without asking the map for it.
RouteUnchecked(m, msg) ==
    IF SessionIdOf(msg) # Null THEN SessionIdOf(msg) ELSE m[1]

\* The request handed to every session when it names none of them.
PostMessageToAll(msg, threw) ==
    /\ lastPost.kind = "none"
    /\ IF Len(transports) = 0
       THEN lastPost' = [kind |-> "post", msg |-> msg, status |-> 503,
                         delivered |-> {}, registry |-> transports,
                         threw |-> FALSE,
                         seen503 |-> lastPost.seen503,
                         seen500 |-> lastPost.seen500]
       ELSE lastPost' = [kind |-> "post", msg |-> msg,
                         status |-> IF threw THEN 500 ELSE 200,
                         delivered |-> IF SessionIdOf(msg) # Null
                                          /\ Has(transports, SessionIdOf(msg))
                                       THEN {SessionIdOf(msg)}
                                       ELSE Range(transports),
                         registry |-> transports,
                         threw |-> threw,
                         seen503 |-> lastPost.seen503,
                         seen500 |-> lastPost.seen500]
    /\ UNCHANGED <<transports, usedIds, closedIds, attached, regOrder>>
    /\ UNCHANGED toolVars

\* The fallback to the most recently registered session.
RouteFallbackLast(m, msg) ==
    IF SessionIdOf(msg) # Null /\ Has(m, SessionIdOf(msg))
    THEN SessionIdOf(msg)
    ELSE m[Len(m)]

\* the transport whose handlePostMessage is called (the map is not empty)
Route(m, msg) ==
    IF SessionIdOf(msg) # Null /\ Has(m, SessionIdOf(msg))
    THEN SessionIdOf(msg)
    ELSE m[1]

\* no request is being answered; and the history of the answers so far
NoPost == [kind |-> "none", seen503 |-> FALSE, seen500 |-> FALSE]

\* GET /sse: a transport with a fresh session id is stored in the map, and
\* the one MCP server object is connected to it: mcpServer.connect(transport)
\* replaces the transport the server object sends through.
Connect(id) ==
    /\ id \in SessionIds \ usedIds
    /\ transports' = MapSet(transports, id)
    /\ usedIds' = usedIds \cup {id}
    /\ attached' = id
    /\ regOrder' = Append(regOrder, id)
    /\ UNCHANGED <<closedIds, lastPost>>
    /\ UNCHANGED toolVars

\* res.on('close'): transports.delete(transport.sessionId).  The server
\* object loses the transport it sends through when that one closes; when
\* another transport of the same server object closes, the server object
\* keeps its transport or drops it, depending on the library.
Close(id) ==
    /\ id \in usedIds
    /\ transports' = MapDelete(transports, id)
    /\ closedIds' = closedIds \cup {id}
    /\ attached' \in IF id \in closedIds THEN {attached}
                      ELSE IF id = attached THEN {Undefined}
                      ELSE {attached, Undefined}
    /\ UNCHANGED <<usedIds, lastPost, regOrder>>
    /\ UNCHANGED toolVars

\* The empty-registry check left out: the request goes on to the routing,
\* where taking the first entry of an empty map raises, and the catch
\* answers 500.
PostMessageUnchecked(msg, threw) ==
    /\ lastPost.kind = "none"
    /\ lastPost' = [kind |-> "post", msg |-> msg,
                    status |-> IF threw \/ Len(transports) = 0 THEN 500 ELSE 200,
                    delivered |-> IF Len(transports) = 0 THEN {}
                                  ELSE {Route(transports, msg)},
                    registry |-> transports,
                    threw |-> threw \/ Len(transports) = 0,
                    seen503 |-> lastPost.seen503,
                    seen500 |-> lastPost.seen500]
    /\ UNCHANGED <<transports, usedIds, closedIds, attached, regOrder>>
    /\ UNCHANGED toolVars

\* A request whose identity names no open session turned down with 404
\* instead of falling to the first session.
PostMessageRejectsUnknown(msg, threw) ==
    /\ lastPost.kind = "none"
    /\ IF Len(transports) = 0
       THEN lastPost' = [kind |-> "post", msg |-> msg, status |-> 503,
                         delivered |-> {}, registry |-> transports,
                         threw |-> FALSE,
                         seen503 |-> lastPost.seen503,
                         seen500 |-> lastPost.seen500]
       ELSE IF SessionIdOf(msg) # Null /\ ~Has(transports, SessionIdOf(msg))
       THEN lastPost' = [kind |-> "post", msg |-> msg, status |-> 404,
                         delivered |-> {}, registry |-> transports,
                         threw |-> FALSE,
                         seen503 |-> lastPost.seen503,
                         seen500 |-> lastPost.seen500]
       ELSE lastPost' = [kind |-> "post", msg |-> msg,
                         status |-> IF threw THEN 500 ELSE 200,
                         delivered |-> {Route(transports, msg)},
                         registry |-> transports,
                         threw |-> threw,
                         seen503 |-> lastPost.seen503,
                         seen500 |-> lastPost.seen500]
    /\ UNCHANGED <<transports, usedIds, closedIds, attached, regOrder>>
    /\ UNCHANGED toolVars

\* The catch taking the session that failed out of the registry.
PostMessageDropsOnThrow(msg, threw) ==
    /\ lastPost.kind = "none"
    /\ IF Len(transports) = 0
       THEN lastPost' = [kind |-> "post", msg |-> msg, status |-> 503,
                         delivered |-> {}, registry |-> transports,
                         threw |-> FALSE,
                         seen503 |-> lastPost.seen503,
                         seen500 |-> lastPost.seen500]
       ELSE lastPost' = [kind |-> "post", msg |-> msg,
                         status |-> IF threw THEN 500 ELSE 200,
                         delivered |-> {Route(transports, msg)},
                         registry |-> transports,
                         threw |-> threw,
                         seen503 |-> lastPost.seen503,
                         seen500 |-> lastPost.seen500]
    /\ transports' = IF Len(transports) # 0 /\ threw
                     THEN MapDelete(transports, Route(transports, msg))
                     ELSE transports
    /\ UNCHANGED <<usedIds, closedIds, attached, regOrder>>
    /\ UNCHANGED toolVars

\* POST /messages; threw: handlePostMessage raised, caught by the handler.
\* lastPost records the request that is being answered: the response
\* status, the sessions whose handler was called, the registry at that
\* moment, and whether earlier requests were answered 503 or 500.  The
\* model follows one request at a time.
PostMessage(msg, threw) ==
    /\ lastPost.kind = "none"
    /\ IF Len(transports) = 0
       THEN lastPost' = [kind |-> "post", msg |-> msg, status |-> 503,
                         delivered |-> {}, registry |-> transports,
                         threw |-> FALSE,
                         seen503 |-> lastPost.seen503,
                         seen500 |-> lastPost.seen500]
       ELSE lastPost' = [kind |-> "post", msg |-> msg,
                         status |-> IF threw THEN 500 ELSE 200,
                         delivered |-> {Route(transports, msg)},
                         registry |-> transports,
                         threw |-> threw,
                         seen503 |-> lastPost.seen503,
                         seen500 |-> lastPost.seen500]
    /\ UNCHANGED <<transports, usedIds, closedIds, attached, regOrder>>
    /\ UNCHANGED toolVars

\* the response of the request has gone out: res.status(503).json,
\* the transport's answer, or res.status(500).json
Responded ==
    /\ lastPost.kind = "post"
    /\ lastPost' = [kind |-> "none",
                    seen503 |-> lastPost.seen503 \/ lastPost.status = 503,
                    seen500 |-> lastPost.seen500 \/ lastPost.status = 500]
    /\ UNCHANGED <<transports, usedIds, closedIds, attached, regOrder>>
    /\ UNCHANGED toolVars

(***************************************************************************)
(* The surface store (./main), by its contract: a surface exists when its  *)
(* backing content is there; its live state is what the rendering surface  *)
(* last reported or was last injected, and is undefined until then.        *)
(***************************************************************************)
\* the surface has backing content
Exists(name) == files[FileName(name)] # NoFile

\* readWindow(name): null for a surface that is not there, else its live
\* state
readWindow(name) == IF Exists(name) THEN live[name] ELSE Null

\* describeWindow(name): null for a surface that is not there, else the
\* schema of its state
describeWindow(name) == IF Exists(name) THEN Schema ELSE Null

\* injectWindow(name, json), its answer: null for a surface that is not
\* there, else the updated live state
injectWindow(name, json) == IF Exists(name) THEN json ELSE Null

\* injectWindow(name, json), its effect on the live state
injectEffect(name, json) ==
    IF Exists(name) THEN [live EXCEPT ![name] = json] ELSE live

\* listFiles(): the names of the files of the uploads directory
listFiles == {f \in FileNames : files[f] # NoFile} \cup foreign

(***************************************************************************)
(* path.extname and path.basename, for names without a path separator      *)
(***************************************************************************)
\* positions of the dots of a file name
Dots(f) == {i \in 1 .. Len(f) : f[i] = "."}

Max(S) == CHOOSE x \in S : \A y \in S : y <= x

\* path.extname: from the last dot to the end; empty when there is no dot,
\* when the only dot is the first character, and for ".."
ExtName(f) ==
    IF Dots(f) = {} THEN <<>>
    ELSE IF Max(Dots(f)) = 1 THEN <<>>
    ELSE IF f = <<".", ".">> THEN <<>>
    ELSE SubSeq(f, Max(Dots(f)), Len(f))

\* f ends with ext
EndsWith(f, ext) ==
    /\ Len(f) >= Len(ext)
    /\ SubSeq(f, Len(f) - Len(ext) + 1, Len(f)) = ext

\* path.basename(f, ext): f without the suffix ext when f ends with it
BaseName(f, ext) ==
    IF f = ext THEN <<>>
    ELSE IF EndsWith(f, ext) THEN SubSeq(f, 1, Len(f) - Len(ext))
    ELSE f

\* path.basename(p): what follows the last separator
PathBaseName(p) ==
    LET seps == {i \in 1 .. Len(p) : p[i] = "/"}
    IN  IF seps = {} THEN p ELSE SubSeq(p, Max(seps) + 1, Len(p))

RECURSIVE SeqOfSet(_)
\* the entries of a directory, each once, in some fixed order
SeqOfSet(S) ==
    IF S = {} THEN <<>>
    ELSE LET x == CHOOSE y \in S : TRUE IN <<x>> \o SeqOfSet(S \ {x})

\* The listing without the suffix filter: every file, suffix stripped.
UiListUnfiltered ==
    LET fs == SeqOfSet(listFiles)
    IN  [i \in 1 .. Len(fs) |-> BaseName(fs[i], TsxExt)]

\* resource ui://list: the .tsx files of the directory, without the suffix
UiList ==
    LET fs == SelectSeq(SeqOfSet(listFiles), LAMBDA f : ExtName(f) = TsxExt)
    IN  [i \in 1 .. Len(fs) |-> BaseName(fs[i], TsxExt)]

(***************************************************************************)
(* The pop-ui tool handler.  An invocation is a record; its pc names the   *)
(* await it is suspended at ("await_*": the store has not acted yet,       *)
(* "resume_*": the awaited promise has settled with ws), fx lists the      *)
(* effects the invocation has had so far, in order.                        *)
(***************************************************************************)
\* a tool result: isError, and the text as its wording, the name it quotes
\* and the value it renders
NoResult == [isError |-> FALSE, text |-> [kind |-> "", name |-> <<>>, value |-> ""]]

\* `tsx is required when mode is show and window does not exist.`
TsxRequired ==
    [isError |-> TRUE,
     text |-> [kind |-> "tsx is required", name |-> <<>>, value |-> ""]]

\* `User interface named "${name}" not found.`
NotFound(name) ==
    [isError |-> TRUE,
     text |-> [kind |-> "not found", name |-> name, value |-> ""]]

\* The message without the offending value.
InvalidModeNoValue(mode) ==
    [isError |-> TRUE,
     text |-> [kind |-> "Invalid mode", name |-> <<>>, value |-> ""]]

\* `Invalid mode "${mode}".`
InvalidMode(mode) ==
    [isError |-> TRUE,
     text |-> [kind |-> "Invalid mode", name |-> <<>>, value |-> ToText(mode)]]

\* what the caller gets when the arguments do not pass the tool's schema:
\* a failure that names the received value, produced before and instead of
\* the callback
SchemaRejection(mode) ==
    [isError |-> TRUE,
     text |-> [kind |-> "Invalid arguments", name |-> <<>>, value |-> ToText(mode)]]

\* `${windowState}`
StateText(ws) ==
    [isError |-> FALSE,
     text |-> [kind |-> "state", name |-> <<>>, value |-> ToText(ws)]]

Finish(c, res) == [c EXCEPT !.pc = "done", !.result = res]

Replace(c, d) == (calls \ {c}) \cup {d}

\* the tool callback is entered: async ({name, mode, json, tsx}) => ...
\* It runs to its first await, or to the invalid-mode return.
Invoke(name, mode, json, tsx) ==
    /\ Cardinality(calls) < MaxCalls
    /\ LET c == [name |-> name, mode |-> mode, json |-> json, tsx |-> tsx,
                 pc |-> CASE mode = "show" -> "await_read"
                          [] mode = "set" -> "await_inject"
                          [] mode = "get" -> "await_read"
                          [] mode = "describe" -> "await_describe"
                          [] OTHER -> "done",
                 ws |-> Undefined,
                 result |-> IF mode \in {"show", "set", "get", "describe"}
                            THEN NoResult ELSE InvalidMode(mode),
                 fx |-> <<>>,
                 sent |-> {},
                 afterShow |-> name = watched /\ shownDone]
       IN  calls' = calls \cup {c}
    /\ shownEver' = (shownEver \/ (mode = "show" /\ name = watched))
    /\ UNCHANGED <<files, live, openReqs, watched, shownDone, setMissed>>
    /\ UNCHANGED <<regVars, foreign>>

\* an invocation whose mode is outside the enum: the schema rejects the
\* arguments and the callback is not entered
RejectArguments(name, mode) ==
    /\ Cardinality(calls) < MaxCalls
    /\ mode \notin ModeEnum \cup {Undefined}
    /\ calls' = calls \cup {[name |-> name, mode |-> mode, json |-> Undefined,
                              tsx |-> Undefined, pc |-> "done", ws |-> Undefined,
                              result |-> SchemaRejection(mode), fx |-> <<>>,
                              sent |-> {},
                              afterShow |-> name = watched /\ shownDone]}
    /\ UNCHANGED <<files, live, openReqs, watched, shownEver, shownDone, setMissed>>
    /\ UNCHANGED <<regVars, foreign>>

\* the store answers a readWindow
StoreRead(c) ==
    /\ c.pc = "await_read"
    /\ calls' = Replace(c, [c EXCEPT !.pc = "resume_read",
                                     !.ws = readWindow(c.name)])
    /\ UNCHANGED <<files, live, openReqs, watched, shownEver, shownDone, setMissed>>
    /\ UNCHANGED <<regVars, foreign>>

\* the store answers a describeWindow
StoreDescribe(c) ==
    /\ c.pc = "await_describe"
    /\ calls' = Replace(c, [c EXCEPT !.pc = "resume_describe",
                                     !.ws = describeWindow(c.name)])
    /\ UNCHANGED <<files, live, openReqs, watched, shownEver, shownDone, setMissed>>
    /\ UNCHANGED <<regVars, foreign>>

\* the store carries out an injectWindow
StoreInject(c) ==
    /\ c.pc = "await_inject"
    /\ live' = injectEffect(c.name, c.json)
    /\ calls' = Replace(c, [c EXCEPT !.pc = "resume_inject",
                                     !.ws = injectWindow(c.name, c.json),
                                     !.fx = IF Exists(c.name)
                                            THEN Append(@, "inject") ELSE @])
    /\ UNCHANGED <<files, openReqs, watched, shownEver, shownDone, setMissed>>
    /\ UNCHANGED <<regVars, foreign>>

\* fs.promises.writeFile(filePath, tsx) takes effect
WriteFile(c) ==
    /\ c.pc = "await_write"
    /\ files' = [files EXCEPT ![FileName(c.name)] = c.tsx]
    /\ calls' = Replace(c, [c EXCEPT !.pc = "resume_write",
                                     !.fx = Append(@, "persist")])
    /\ UNCHANGED <<live, openReqs, watched, shownEver, shownDone, setMissed>>
    /\ UNCHANGED <<regVars, foreign>>

\* openFile(filePath), not awaited: the open/render request is issued
OpenFile(c) == openReqs \cup {FileName(c.name)}

\* The validation left out: a show without tsx goes on whatever the
\* store answered.
ShowAfterReadNoValidation(c) ==
    /\ c.mode = "show" /\ c.pc = "resume_read"
    /\ IF c.tsx # Undefined
       THEN /\ calls' = Replace(c, [c EXCEPT !.pc = "await_write"])
            /\ UNCHANGED openReqs
       ELSE IF c.json # Undefined
       THEN /\ calls' = Replace(c, [c EXCEPT !.pc = "await_inject"])
            /\ UNCHANGED openReqs
       ELSE /\ openReqs' = OpenFile(c)
            /\ calls' = Replace(c, Finish([c EXCEPT !.fx = Append(@, "open")],
                                          StateText(c.ws)))
    /\ UNCHANGED <<files, live, watched, shownEver, shownDone, setMissed>>
    /\ UNCHANGED <<regVars, foreign>>

\* The validation with `windowState == null`: an undefined live state
\* counts as a missing window too.
ShowAfterReadNeedsState(c) ==
    /\ c.mode = "show" /\ c.pc = "resume_read"
    /\ IF c.tsx = Undefined /\ c.ws \in {Null, Undefined}
       THEN /\ calls' = Replace(c, Finish(c, TsxRequired))
            /\ UNCHANGED openReqs
       ELSE IF c.tsx # Undefined
       THEN /\ calls' = Replace(c, [c EXCEPT !.pc = "await_write"])
            /\ UNCHANGED openReqs
       ELSE IF c.json # Undefined
       THEN /\ calls' = Replace(c, [c EXCEPT !.pc = "await_inject"])
            /\ UNCHANGED openReqs
       ELSE /\ openReqs' = OpenFile(c)
            /\ calls' = Replace(c, Finish([c EXCEPT !.fx = Append(@, "open")],
                                          StateText(c.ws)))
    /\ UNCHANGED <<files, live, watched, shownEver, shownDone, setMissed>>
    /\ UNCHANGED <<regVars, foreign>>

\* The write not guarded by `tsx !== undefined`: every show that passes
\* the validation saves its tsx argument.
ShowAfterReadAlwaysWrites(c) ==
    /\ c.mode = "show" /\ c.pc = "resume_read"
    /\ IF c.tsx = Undefined /\ c.ws = Null
       THEN calls' = Replace(c, Finish(c, TsxRequired))
       ELSE calls' = Replace(c, [c EXCEPT !.pc = "await_write"])
    /\ UNCHANGED <<files, live, openReqs, watched, shownEver, shownDone, setMissed>>
    /\ UNCHANGED <<regVars, foreign>>

\* show, after `await readWindow(name)`
ShowAfterRead(c) ==
    /\ c.mode = "show" /\ c.pc = "resume_read"
    /\ IF c.tsx = Undefined /\ c.ws = Null
       THEN /\ calls' = Replace(c, Finish(c, TsxRequired))
            /\ UNCHANGED openReqs
       ELSE IF c.tsx # Undefined
       THEN /\ calls' = Replace(c, [c EXCEPT !.pc = "await_write"])
            /\ UNCHANGED openReqs
       ELSE IF c.json # Undefined
       THEN /\ calls' = Replace(c, [c EXCEPT !.pc = "await_inject"])
            /\ UNCHANGED openReqs
       ELSE /\ openReqs' = OpenFile(c)
            /\ calls' = Replace(c, Finish([c EXCEPT !.fx = Append(@, "open")],
                                          StateText(c.ws)))
    /\ UNCHANGED <<files, live, watched, shownEver, shownDone, setMissed>>
    /\ UNCHANGED <<regVars, foreign>>

\* mcpServer.server.notification(...), not awaited: one send, through the
\* transport the server object is connected to; the sessions it reaches
NotifyTargets == IF Has(transports, attached) THEN {attached} ELSE {}

\* show, after `await fs.promises.writeFile(filePath, tsx)`: the
\* list_changed notification, openFile, the result
ShowAfterWrite(c) ==
    /\ c.mode = "show" /\ c.pc = "resume_write"
    /\ openReqs' = OpenFile(c)
    /\ calls' = Replace(c, Finish([c EXCEPT !.fx = @ \o <<"notify", "open">>,
                                            !.sent = NotifyTargets],
                                  StateText(c.ws)))
    /\ UNCHANGED <<files, live, watched, shownEver, shownDone, setMissed>>
    /\ UNCHANGED <<regVars, foreign>>

\* The notification sent by every show that gets as far as openFile.
ShowAfterInjectNotifies(c) ==
    /\ c.mode = "show" /\ c.pc = "resume_inject"
    /\ openReqs' = OpenFile(c)
    /\ calls' = Replace(c, Finish([c EXCEPT !.fx = @ \o <<"notify", "open">>,
                                            !.sent = NotifyTargets],
                                  StateText(c.ws)))
    /\ UNCHANGED <<files, live, watched, shownEver, shownDone, setMissed>>
    /\ UNCHANGED <<regVars, foreign>>

\* show, after `windowState = await injectWindow(name, json)`
ShowAfterInject(c) ==
    /\ c.mode = "show" /\ c.pc = "resume_inject"
    /\ openReqs' = OpenFile(c)
    /\ calls' = Replace(c, Finish([c EXCEPT !.fx = Append(@, "open")],
                                  StateText(c.ws)))
    /\ UNCHANGED <<files, live, watched, shownEver, shownDone, setMissed>>
    /\ UNCHANGED <<regVars, foreign>>

\* The null check left out of set.
SetAfterInjectUnchecked(c) ==
    /\ c.mode = "set" /\ c.pc = "resume_inject"
    /\ calls' = Replace(c, Finish(c, StateText(c.ws)))
    /\ UNCHANGED <<files, live, openReqs, watched, shownEver, shownDone, setMissed>>
    /\ UNCHANGED <<regVars, foreign>>

\* set, after `await injectWindow(name, json)`
SetAfterInject(c) ==
    /\ c.mode = "set" /\ c.pc = "resume_inject"
    /\ calls' = Replace(c, Finish(c, IF c.ws = Null THEN NotFound(c.name)
                                     ELSE StateText(c.ws)))
    /\ UNCHANGED <<files, live, openReqs, watched, shownEver, shownDone, setMissed>>
    /\ UNCHANGED <<regVars, foreign>>

\* The null check left out of get.
GetAfterReadUnchecked(c) ==
    /\ c.mode = "get" /\ c.pc = "resume_read"
    /\ calls' = Replace(c, Finish(c, StateText(c.ws)))
    /\ UNCHANGED <<files, live, openReqs, watched, shownEver, shownDone, setMissed>>
    /\ UNCHANGED <<regVars, foreign>>

\* The check written `!windowState`: an undefined state is not found too.
GetAfterReadFalsy(c) ==
    /\ c.mode = "get" /\ c.pc = "resume_read"
    /\ calls' = Replace(c, Finish(c, IF c.ws \in {Null, Undefined, EmptyStr}
                                     THEN NotFound(c.name)
                                     ELSE StateText(c.ws)))
    /\ UNCHANGED <<files, live, openReqs, watched, shownEver, shownDone, setMissed>>
    /\ UNCHANGED <<regVars, foreign>>

\* get, after `await readWindow(name)`
GetAfterRead(c) ==
    /\ c.mode = "get" /\ c.pc = "resume_read"
    /\ calls' = Replace(c, Finish(c, IF c.ws = Null THEN NotFound(c.name)
                                     ELSE StateText(c.ws)))
    /\ UNCHANGED <<files, live, openReqs, watched, shownEver, shownDone, setMissed>>
    /\ UNCHANGED <<regVars, foreign>>

\* describe doing what its comment says ("Save the tsx file to the
\* uploads directory") when it is handed a component.
DescribeAfterSaves(c) ==
    /\ c.mode = "describe" /\ c.pc = "resume_describe"
    /\ files' = IF c.tsx # Undefined
                THEN [files EXCEPT ![FileName(c.name)] = c.tsx] ELSE files
    /\ calls' = Replace(c, Finish([c EXCEPT !.fx = IF c.tsx # Undefined
                                                   THEN Append(@, "persist")
                                                   ELSE @],
                                  IF c.ws = Null THEN NotFound(c.name)
                                  ELSE StateText(c.ws)))
    /\ UNCHANGED <<live, openReqs, watched, shownEver, shownDone, setMissed>>
    /\ UNCHANGED <<regVars, foreign>>

\* describe, after `await describeWindow(name)`
DescribeAfter(c) ==
    /\ c.mode = "describe" /\ c.pc = "resume_describe"
    /\ calls' = Replace(c, Finish(c, IF c.ws = Null THEN NotFound(c.name)
                                     ELSE StateText(c.ws)))
    /\ UNCHANGED <<files, live, openReqs, watched, shownEver, shownDone, setMissed>>
    /\ UNCHANGED <<regVars, foreign>>

\* the result has gone back to the caller
Return(c) ==
    /\ c.pc = "done"
    /\ calls' = calls \ {c}
    /\ shownDone' = (shownDone \/ (/\ c.name = watched /\ c.mode = "show"
                                    /\ c.tsx # Undefined /\ ~c.result.isError))
    /\ setMissed' = (setMissed \/ (/\ c.name = watched /\ c.mode = "set"
                                    /\ c.result.isError))
    /\ UNCHANGED <<files, live, openReqs, watched, shownEver>>
    /\ UNCHANGED <<regVars, foreign>>

\* the rendering surface, once asked to open, reports its state
RendererReports(name, st) ==
    /\ FileName(name) \in openReqs
    /\ live[name] # st
    /\ live' = [live EXCEPT ![name] = st]
    /\ UNCHANGED <<files, openReqs, calls, watched, shownEver, shownDone, setMissed>>
    /\ UNCHANGED <<regVars, foreign>>

\* the store never answers an operation: the promise the handler awaits
\* stays pending
StoreNeverAnswers(c) ==
    /\ c.pc \in {"await_read", "await_describe", "await_inject"}
    /\ calls' = Replace(c, [c EXCEPT !.pc = "pending_forever"])
    /\ UNCHANGED <<files, live, openReqs, watched, shownEver, shownDone, setMissed>>
    /\ UNCHANGED <<regVars, foreign>>

(***************************************************************************)
(* The older pop-ui handler that the source file also holds (its second     *)
(* half): a tool with the arguments name and tsx only, which always saves  *)
(* and shows.                                                              *)
(***************************************************************************)
\* `User interface named "${name}" created and shown. ...`
OlderCreated(name) ==
    [isError |-> FALSE,
     text |-> [kind |-> "created and shown", name |-> name, value |-> ""]]

\* the older callback is entered: async ({name, tsx}) => ...; it runs to
\* `await fs.promises.writeFile(filePath, tsx)`
OlderInvoke(name, tsx) ==
    /\ Cardinality(calls) < MaxCalls
    /\ calls' = calls \cup {[name |-> name, mode |-> Undefined,
                              json |-> Undefined, tsx |-> tsx,
                              pc |-> "older_await_write", ws |-> Undefined,
                              result |-> NoResult, fx |-> <<>>, sent |-> {},
                              afterShow |-> name = watched /\ shownDone]}
    /\ shownEver' = (shownEver \/ name = watched)
    /\ UNCHANGED <<files, live, openReqs, watched, shownDone, setMissed>>
    /\ UNCHANGED <<regVars, foreign>>

\* the older handler's writeFile takes effect
OlderWriteFile(c) ==
    /\ c.pc = "older_await_write"
    /\ files' = [files EXCEPT ![FileName(c.name)] = c.tsx]
    /\ calls' = Replace(c, [c EXCEPT !.pc = "older_resume_write",
                                     !.fx = Append(@, "persist")])
    /\ UNCHANGED <<live, openReqs, watched, shownEver, shownDone, setMissed>>
    /\ UNCHANGED <<regVars, foreign>>

\* the older handler after its writeFile: openFile(filePath), then the
\* list_changed notification, then the result
OlderAfterWrite(c) ==
    /\ c.pc = "older_resume_write"
    /\ openReqs' = OpenFile(c)
    /\ calls' = Replace(c, Finish([c EXCEPT !.fx = @ \o <<"open", "notify">>,
                                            !.sent = NotifyTargets],
                                  OlderCreated(c.name)))
    /\ UNCHANGED <<files, live, watched, shownEver, shownDone, setMissed>>
    /\ UNCHANGED <<regVars, foreign>>

\* the older handler's result has gone back to the caller
OlderReturn(c) ==
    /\ c.pc = "done"
    /\ calls' = calls \ {c}
    /\ shownDone' = (shownDone \/ c.name = watched)
    /\ UNCHANGED <<files, live, openReqs, watched, shownEver, setMissed>>
    /\ UNCHANGED <<regVars, foreign>>

\* POST /upload with a file name and data: the data is written under the
\* base name of the file name into the uploads directory
Upload(fileName, data) ==
    /\ fileName # <<>>
    /\ IF PathBaseName(fileName) \in FileNames
       THEN /\ files' = [files EXCEPT ![PathBaseName(fileName)] = data]
            /\ UNCHANGED foreign
       ELSE /\ foreign' = foreign \cup {PathBaseName(fileName)}
            /\ UNCHANGED files
    /\ UNCHANGED <<live, openReqs, calls, watched, shownEver, shownDone, setMissed>>
    /\ UNCHANGED regVars

RegistryInit ==
    /\ transports = <<>>
    /\ usedIds = {}
    /\ closedIds = {}
    /\ lastPost = NoPost
    /\ attached = Undefined
    /\ regOrder = <<>>

ToolInit ==
    /\ files = [f \in FileNames |-> NoFile]
    /\ foreign = {}
    /\ live = [n \in Names |-> Undefined]
    /\ openReqs = {}
    /\ calls = {}
    /\ watched \in Names
    /\ shownEver = FALSE
    /\ shownDone = FALSE
    /\ setMissed = FALSE

Init == RegistryInit /\ ToolInit

RegistryNext ==
    \/ \E id \in SessionIds : Connect(id)
    \/ \E id \in SessionIds : Close(id)
    \/ \E msg \in Messages, threw \in BOOLEAN : PostMessage(msg, threw)
    \/ Responded

\* the registry on its own: connects, closes and message submissions
SpecRegistry == Init /\ [][RegistryNext]_vars

ToolNext ==
    \/ \E name \in Names, mode \in Modes :
          \E json \in JsonArgs(mode), tsx \in TsxArgs(mode) :
            Invoke(name, mode, json, tsx)
    \/ \E name \in Names, mode \in BadModes : RejectArguments(name, mode)
    \/ \E c \in calls : StoreRead(c)
    \/ \E c \in calls : StoreDescribe(c)
    \/ \E c \in calls : StoreInject(c)
    \/ \E c \in calls : WriteFile(c)
    \/ \E c \in calls : ShowAfterRead(c)
    \/ \E c \in calls : ShowAfterWrite(c)
    \/ \E c \in calls : ShowAfterInject(c)
    \/ \E c \in calls : SetAfterInject(c)
    \/ \E c \in calls : GetAfterRead(c)
    \/ \E c \in calls : DescribeAfter(c)
    \/ \E c \in calls : Return(c)
    \/ \E name \in Names, st \in States : RendererReports(name, st)

\* the tool handler and the store on their own
SpecTools == Init /\ [][ToolNext]_vars

FaultNext ==
    \/ ToolNext
    \/ \E c \in calls : StoreNeverAnswers(c)

\* the tool handler with a store that may leave an operation unanswered
SpecStoreFaults == Init /\ [][FaultNext]_vars

OlderNext ==
    \/ \E name \in Names, tsx \in Contents : OlderInvoke(name, tsx)
    \/ \E c \in calls : OlderWriteFile(c)
    \/ \E c \in calls : OlderAfterWrite(c)
    \/ \E c \in calls : OlderReturn(c)
    \/ \E name \in Names, st \in States : RendererReports(name, st)
    \/ \E id \in SessionIds : Connect(id)
    \/ \E id \in SessionIds : Close(id)

\* the older pop-ui handler while sessions connect and close
SpecOlder == Init /\ [][OlderNext]_vars

ListingNext ==
    \/ ToolNext
    \/ \E fileName \in UploadNames, data \in Contents : Upload(fileName, data)

\* the tool handler and the listing with uploads into the same directory
SpecListing == Init /\ [][ListingNext]_vars

BroadcastNext ==
    \/ \E id \in SessionIds : Connect(id)
    \/ \E id \in SessionIds : Close(id)
    \/ ToolNext

\* the tool handler while sessions connect and close
SpecBroadcast == Init /\ [][BroadcastNext]_vars

Next == RegistryNext \/ ToolNext

Spec == Init /\ [][Next]_vars

(***************************************************************************)
(* Claims on the connection registry                                       *)
(***************************************************************************)
\* the identities a request carries, wherever it carries them
Carried(msg) == {msg.body, msg.header, msg.query} \ {Undefined, EmptyStr}

\* C1: when two distinct sessions A and B are registered and a request
\* carries B's identity (in body, header or query, and no other identity),
\* B's handler is the one called and no other session's handler is,
\* whichever of A and B registered first.
C1_ExplicitIdentityRoutesToOwner ==
    lastPost.kind = "post" =>
        \A a, b \in Range(lastPost.registry) :
            (a # b /\ Carried(lastPost.msg) = {b}) => lastPost.delivered = {b}

\* C1 happens: B registered after A, the request names B in its header
\* only, and B's handler was called.
C1_Witness ==
    /\ lastPost.kind = "post"
    /\ Len(lastPost.registry) >= 2
    /\ lastPost.msg.body = Undefined
    /\ lastPost.msg.header = lastPost.registry[2]
    /\ lastPost.msg.query = Undefined
    /\ lastPost.delivered = {lastPost.registry[2]}

\* C2: a request submitted while the registry is empty is answered with the
\* no-active-connection status 503 whatever identity it carries, no
\* session's handler is called, the registry stays empty, and connects and
\* requests are still accepted afterwards.
C2_EmptyRegistryAnswers503 ==
    /\ [](lastPost.kind = "post" /\ lastPost.registry = <<>>
            => lastPost.status = 503 /\ lastPost.delivered = {})
    /\ [][(transports = <<>> /\ lastPost' # lastPost /\ lastPost'.kind = "post")
            => /\ transports' = <<>>
               /\ lastPost'.registry = <<>>
               /\ lastPost'.status = 503
               /\ lastPost'.delivered = {}]_vars
    /\ [](lastPost.kind = "post" /\ lastPost.status = 503 =>
            /\ ENABLED Responded
            /\ \A id \in SessionIds \ usedIds : ENABLED Connect(id))
    /\ [](lastPost.kind = "none" /\ lastPost.seen503 =>
            /\ \A msg \in Messages : ENABLED PostMessage(msg, FALSE)
            /\ \A id \in SessionIds \ usedIds : ENABLED Connect(id))

\* C2 happens: a request that carried an identity was answered 503, and a
\* later request, after a connect, was delivered to a session.
C2_Witness ==
    /\ lastPost.kind = "post"
    /\ lastPost.seen503
    /\ lastPost.status = 200
    /\ lastPost.delivered # {}

\* a location of the request holds an identity: a non-empty string
Present(v) == v \notin {Undefined, EmptyStr}

\* C16: the identity a request is routed by is the first present one of
\* body, header, query; a later location is not looked at when an earlier
\* one holds an identity, also when the earlier one names no open session
\* and the later one names an open one (the request then goes to the first
\* session of the registry).
C16_BodyThenHeaderThenQuery ==
    (lastPost.kind = "post" /\ lastPost.registry # <<>>) =>
        LET m == lastPost.msg
            reg == lastPost.registry
            Target(x) == IF Has(reg, x) THEN x ELSE reg[1]
        IN  /\ Present(m.body) => lastPost.delivered = {Target(m.body)}
            /\ (~Present(m.body) /\ Present(m.header))
                    => lastPost.delivered = {Target(m.header)}
            /\ (~Present(m.body) /\ ~Present(m.header) /\ Present(m.query))
                    => lastPost.delivered = {Target(m.query)}

\* C16 happens: the body names no open session, the header names the
\* second session of the registry, and the request went to the first.
C16_Witness ==
    /\ lastPost.kind = "post"
    /\ Len(lastPost.registry) >= 2
    /\ lastPost.msg.body = UnknownId
    /\ lastPost.msg.header = lastPost.registry[2]
    /\ lastPost.delivered = {lastPost.registry[1]}

\* the session of reg that connected first, by the history of the connects
EarliestOpen(order, reg) ==
    LET open == {i \in 1 .. Len(order) : Has(reg, order[i])}
    IN  order[CHOOSE i \in open : \A j \in open : i <= j]

\* C17: a request that carries no identity, submitted while at least one
\* session is open, goes to the first session of the registry, which is
\* the one that connected earliest among the open ones, and to no other.
C17_NoIdentityGoesToFirst ==
    (/\ lastPost.kind = "post" /\ lastPost.registry # <<>>
     /\ Carried(lastPost.msg) = {})
        => /\ lastPost.delivered = {lastPost.registry[1]}
           /\ lastPost.registry[1] = EarliestOpen(regOrder, lastPost.registry)

\* C17 happens: two sessions are open, the request names none, and it went
\* to the one that connected first.
C17_Witness ==
    /\ lastPost.kind = "post"
    /\ Len(lastPost.registry) >= 2
    /\ lastPost.msg = [body |-> Undefined, header |-> Undefined, query |-> Undefined]
    /\ lastPost.delivered = {regOrder[1]}
    /\ lastPost.status = 200

\* C18: however connects, closes and requests interleave, a request is
\* never handed to a session whose close has been processed by then: the
\* session it goes to is in the registry at that moment.
C18_NeverDeliveredToClosed ==
    [][(lastPost' # lastPost /\ lastPost'.kind = "post")
        => /\ lastPost'.delivered \cap closedIds = {}
           /\ lastPost'.delivered \subseteq Range(transports)]_vars

\* C18 happens: a request that names a session whose close has been
\* processed went to a session that is still open.
C18_Witness ==
    /\ lastPost.kind = "post"
    /\ lastPost.status = 200
    /\ lastPost.msg.body \in closedIds
    /\ ~Has(lastPost.registry, lastPost.msg.body)
    /\ lastPost.delivered = {lastPost.registry[1]}

\* C20: when the handler of the chosen session raises, that request is
\* answered with the internal-failure status 500, the registry is as it
\* was, and the requests submitted after it are routed as ever: to the
\* open session they name, else to the first session of the registry, and
\* answered 503 when the registry is empty.
C20_DeliveryFailureIsContained ==
    /\ [](lastPost.kind = "post" /\ lastPost.threw => lastPost.status = 500)
    /\ [][(lastPost' # lastPost /\ lastPost'.kind = "post")
            => transports' = transports /\ lastPost'.registry = transports]_vars
    /\ [](lastPost.kind = "post" /\ lastPost.seen500 =>
            IF lastPost.registry = <<>>
            THEN lastPost.status = 503 /\ lastPost.delivered = {}
            ELSE /\ lastPost.status = IF lastPost.threw THEN 500 ELSE 200
                 /\ Carried(lastPost.msg) = {}
                        => lastPost.delivered = {lastPost.registry[1]}
                 /\ \A b \in Range(lastPost.registry) :
                        Carried(lastPost.msg) = {b} => lastPost.delivered = {b})

\* C20 happens: after a request was answered 500, a request that names the
\* second session of the registry went to that session, and that session
\* is still registered.
C20_Witness ==
    /\ lastPost.kind = "post"
    /\ lastPost.seen500
    /\ lastPost.status = 200
    /\ Len(lastPost.registry) >= 2
    /\ lastPost.msg.body = lastPost.registry[2]
    /\ lastPost.delivered = {lastPost.registry[2]}
    /\ transports = lastPost.registry

\* the identity a request is looked up by: the first present one
Candidate(m) ==
    IF Present(m.body) THEN m.body
    ELSE IF Present(m.header) THEN m.header
    ELSE m.query

\* C24: a request whose identity names no session of the registry, a
\* string that is no session's id or the id of a closed session, is not
\* turned down while a session is open: it goes to the first session of
\* the registry and to no other, as a request without identity does.
C24_UnknownIdentityGoesToFirst ==
    (/\ lastPost.kind = "post" /\ lastPost.registry # <<>>
     /\ Present(Candidate(lastPost.msg))
     /\ ~Has(lastPost.registry, Candidate(lastPost.msg)))
        => /\ lastPost.delivered = {lastPost.registry[1]}
           /\ lastPost.status = IF lastPost.threw THEN 500 ELSE 200

\* C24 happens: two sessions are open, the header of the request holds a
\* string that is no session's id, and the request went to the first
\* session and was accepted.
C24_Witness ==
    /\ lastPost.kind = "post"
    /\ Len(lastPost.registry) >= 2
    /\ lastPost.msg = [body |-> Undefined, header |-> UnknownId, query |-> Undefined]
    /\ lastPost.delivered = {lastPost.registry[1]}
    /\ lastPost.status = 200

\* C25: a request submitted while at least one session is open is handed
\* to the handler of exactly one session, a session of the registry,
\* whatever it carries in body, header and query.
C25_ExactlyOneHandler ==
    (lastPost.kind = "post" /\ lastPost.registry # <<>>)
        => /\ Cardinality(lastPost.delivered) = 1
           /\ lastPost.delivered \subseteq Range(lastPost.registry)

\* C25 happens: the three locations of a request name three different
\* things, two of them open sessions, and one handler was called.
C25_Witness ==
    /\ lastPost.kind = "post"
    /\ Len(lastPost.registry) >= 2
    /\ lastPost.msg.body = lastPost.registry[2]
    /\ lastPost.msg.header = lastPost.registry[1]
    /\ lastPost.msg.query = UnknownId
    /\ Cardinality(lastPost.delivered) = 1

\* C15: at every moment the registry holds exactly the sessions that were
\* opened and whose close has not been processed, each once; a close takes
\* away the entry of its own session and leaves the others in place; the
\* close of a session that is not in the registry changes nothing.
C15_RegistryIsOpenSessions ==
    /\ [](/\ Range(transports) = usedIds \ closedIds
          /\ Len(transports) = Cardinality(Range(transports))
          /\ \A id \in SessionIds \ Range(transports) :
                MapDelete(transports, id) = transports)
    /\ [][\A id \in SessionIds :
            Close(id) =>
                /\ Range(transports') = Range(transports) \ {id}
                /\ \A i, j \in 1 .. Len(transports) :
                     (i < j /\ transports[i] # id /\ transports[j] # id)
                        => \E k, l \in 1 .. Len(transports') :
                             /\ k < l
                             /\ transports'[k] = transports[i]
                             /\ transports'[l] = transports[j]
                /\ id \notin Range(transports) => transports' = transports]_vars

\* C15 happens: every identity was handed out, one session has been closed
\* and is gone from the registry, another is still in it.
C15_Witness ==
    /\ usedIds = SessionIds
    /\ closedIds # {}
    /\ transports # <<>>
    /\ \A id \in closedIds : ~Has(transports, id)

(***************************************************************************)
(* Claims on the tool handler.  They are stated for the watched name,      *)
(* which Init picks arbitrarily, so they cover every name.                 *)
(***************************************************************************)
\* some step of invocation c: the store acting for it, its handler
\* resuming, or its result going back
StepOf(c) ==
    \/ StoreRead(c) \/ StoreDescribe(c) \/ StoreInject(c) \/ WriteFile(c)
    \/ ShowAfterRead(c) \/ ShowAfterWrite(c) \/ ShowAfterInject(c)
    \/ SetAfterInject(c) \/ GetAfterRead(c) \/ DescribeAfter(c)
    \/ Return(c)

\* how often a name occurs in a listing
Count(list, name) == Cardinality({i \in 1 .. Len(list) : list[i] = name})

C7_FirstShowNeedsTsx ==
    /\ [](\A c \in calls :
            (/\ c.pc = "done" /\ c.mode = "show" /\ c.tsx = Undefined
             /\ ~Exists(c.name))
                => c.result = TsxRequired /\ c.fx = <<>>)
    /\ [][\A c \in calls :
            (/\ c.mode = "show" /\ c.tsx = Undefined /\ ~Exists(c.name)
             /\ StepOf(c))
                => UNCHANGED <<files, live, openReqs>>]_vars

\* C7 happens: a show with a state but no tsx on a name without backing
\* content has returned the validation failure.
C7_Witness ==
    \E c \in calls :
        /\ c.pc = "done" /\ c.mode = "show" /\ c.tsx = Undefined
        /\ c.json \in States
        /\ ~Exists(c.name)
        /\ c.result = TsxRequired

C9_ReshowKeepsContent ==
    /\ [](\A c \in calls :
            (c.mode = "show" /\ c.tsx = Undefined)
                => c.fx \in {<<>>, <<"open">>, <<"inject">>, <<"inject", "open">>})
    /\ [][\A c \in calls :
            (c.mode = "show" /\ c.tsx = Undefined /\ StepOf(c))
                => files' = files]_vars

\* C9 happens: a show without tsx of a name that a show with tsx had
\* created before has returned after its open request.
C9_Witness ==
    \E c \in calls :
        /\ c.pc = "done" /\ c.mode = "show" /\ c.tsx = Undefined
        /\ c.afterShow
        /\ c.fx = <<"open">>
        /\ files[FileName(c.name)] \in Contents

\* C10: when show(n, C2) persists its content after show(n, C1) has
\* completed, n's backing content is C2 and the listing names n exactly
\* once.
C10_LastWriteWinsListedOnce ==
    [][\A c \in calls :
        (c.afterShow /\ WriteFile(c))
            => /\ files'[FileName(c.name)] = c.tsx
               /\ Count(UiList', c.name) = 1]_vars

\* The part of C10 that does hold: the content is the second show's.
C10_LastWriteWins ==
    [][\A c \in calls :
        (c.afterShow /\ WriteFile(c)) => files'[FileName(c.name)] = c.tsx]_vars

\* the effect e occurs in the effects of an invocation
Issued(fx, e) == \E i \in 1 .. Len(fx) : fx[i] = e

\* C11: a show that was handed both a component and a state and has
\* returned its success result has had that state injected into the
\* surface as part of the invocation.
C11_ShowWithBothInjects ==
    \A c \in calls :
        (/\ c.pc = "done" /\ c.mode = "show"
         /\ c.tsx \in Contents /\ c.json \in States
         /\ ~c.result.isError)
            => Issued(c.fx, "inject")

\* What the handler does instead: a show that was handed a component
\* never injects, with or without a state.
C11_ShowWithTsxNeverInjects ==
    \A c \in calls :
        (c.mode = "show" /\ c.tsx \in Contents) => ~Issued(c.fx, "inject")

\* C12: in a show that injects a state, the open request for the surface
\* has been issued before the injection, never after it.
C12_InjectAfterOpen ==
    \A c \in calls :
        c.mode = "show" =>
            \A i \in 1 .. Len(c.fx) :
                c.fx[i] = "inject" => \E j \in 1 .. i - 1 : c.fx[j] = "open"

\* What the handler does instead: in a show, every open request comes
\* after the injection.
C12_OpenAfterInject ==
    \A c \in calls :
        c.mode = "show" =>
            \A i \in 1 .. Len(c.fx) :
                c.fx[i] = "inject" => \A j \in 1 .. i - 1 : c.fx[j] # "open"

C19_NoInvocationStaysSuspended ==
    \A c \in calls : c.pc # "done" => ENABLED StepOf(c)

(***************************************************************************)
(* Claims on the notification                                              *)
(***************************************************************************)
\* C13: when a show has persisted its content and sends the list_changed
\* notification, the notification reaches every session that is open at
\* that moment.
C13_NotificationReachesEverySession ==
    [][\A c \in calls :
        ShowAfterWrite(c)
            => \E d \in calls' :
                /\ d.pc = "done" /\ d.name = c.name /\ d.tsx = c.tsx
                /\ d.sent = Range(transports)]_vars

\* What the server does instead: a notification reaches at most one
\* session, the one the server object is connected to.
C13_NotificationReachesAtMostOne ==
    \A c \in calls : Cardinality(c.sent) <= 1

(***************************************************************************)
(* Claims on the order of the effects of show                              *)
(***************************************************************************)
\* the effect a occurs in fx before position i
Before(fx, a, i) == \E j \in 1 .. i - 1 : fx[j] = a

\* C21: in every invocation that shows a surface with content handed to
\* it, the content has been persisted and the list_changed notification
\* has been emitted before the open request is issued.
C21_PersistAndNotifyBeforeOpen ==
    \A c \in calls :
        c.tsx \in Contents =>
            \A i \in 1 .. Len(c.fx) :
                c.fx[i] = "open" =>
                    Before(c.fx, "persist", i) /\ Before(c.fx, "notify", i)

\* The part of C21 that holds for both handlers: the content is persisted
\* before the open request is issued.
C21_PersistBeforeOpen ==
    \A c \in calls :
        c.tsx \in Contents =>
            \A i \in 1 .. Len(c.fx) :
                c.fx[i] = "open" => Before(c.fx, "persist", i)

\* the listing names the surface
Listed(name) == Count(UiList, name) >= 1

\* C22: when a show with content emits its notification the content has
\* been persisted, and the listing names the surface from then on: while
\* the invocation is still there, and after it has returned.
C22_ListedFromNotificationOn ==
    /\ \A c \in calls :
          \A i \in 1 .. Len(c.fx) :
              c.fx[i] = "notify" => Before(c.fx, "persist", i) /\ Listed(c.name)
    /\ shownDone => Listed(watched)

\* The part of C22 that holds: the content is persisted before the
\* notification, and a surface with a non-empty name is listed from then
\* on.
C22_PersistBeforeNotify ==
    /\ \A c \in calls :
          \A i \in 1 .. Len(c.fx) :
              c.fx[i] = "notify" =>
                  /\ Before(c.fx, "persist", i)
                  /\ files[FileName(c.name)] \in Contents
                  /\ c.name # <<>> => Listed(c.name)
    /\ (shownDone /\ watched # <<>>) => Listed(watched)

\* C26: only a show that was handed content emits the list_changed
\* notification: a get, a set, a describe, an invocation with no or an
\* unknown mode, a show without content and a show that fails its
\* validation have emitted none and reached no session with one, at any
\* point of their run.
C26_OnlyShowWithContentNotifies ==
    \A c \in calls :
        (Issued(c.fx, "notify") \/ c.sent # {})
            => /\ c.mode = "show"
               /\ c.tsx \in Contents
               /\ c.result # TsxRequired

\* C26 happens: a show without content that injected a state into an
\* existing surface and opened it has returned, with no notification.
C26_Witness ==
    \E c \in calls :
        /\ c.pc = "done" /\ c.mode = "show"
        /\ c.tsx = Undefined /\ c.json \in States
        /\ c.fx = <<"inject", "open">>
        /\ ~c.result.isError

(***************************************************************************)
(* Claims on the listing                                                   *)
(***************************************************************************)
\* the files of the directory that carry the suffix of backing content
SuffixFiles == {f \in listFiles : EndsWith(f, TsxExt)}

\* C23: the listing is exactly the names of the files that carry the
\* suffix, the suffix taken off, one entry per such file; a file with
\* another suffix or none contributes no entry, whatever else is in the
\* directory.
C23_ListingIsSuffixFiltered ==
    /\ Range(UiList) = {BaseName(f, TsxExt) : f \in SuffixFiles}
    /\ Len(UiList) = Cardinality(SuffixFiles)

\* The part of C23 that holds: the same with the file named just ".tsx",
\* the backing file of the empty name, left aside.
C23_ListingIsExtnameFiltered ==
    /\ Range(UiList) = {BaseName(f, TsxExt) : f \in SuffixFiles \ {TsxExt}}
    /\ Len(UiList) = Cardinality(SuffixFiles \ {TsxExt})

====
